---------------------------- MODULE Spec2Model ----------------------------
(***************************************************************************)
(* A model of the polling file watcher of src/main.go.                     *)
(*                                                                         *)
(* One goroutine (the scan loop) runs Start: it calls initialize, which    *)
(* walks every watched root and seeds the map fileStates, and then, on     *)
(* every tick, checkChanges, which walks every root again, prints one line *)
(* per detected change and finally sweeps fileStates for deleted paths.    *)
(* The file system is the environment: it changes at any moment, also      *)
(* between two system calls of one walk.  A second goroutine that only     *)
(* takes the read lock stands for any concurrent reader of fileStates.     *)
(***************************************************************************)
EXTENDS Naturals, Sequences, FiniteSets

VARIABLES
    fs,            \* the file system: path -> [kind, size, modTime, mode]
    changes,       \* number of file system changes made so far
    phase,         \* Start: "Initializing", "Running" or "Failed" (returned err)
    pc,            \* position of the scan loop
    ri,            \* index into directories of the root being walked
    todo,          \* filepath.Walk: names read from directories, not yet lstat'ed
    cur,           \* path the walk is at
    curErr,        \* the err argument of the walk callback
    names,         \* names read from the directory cur
    newInfo,       \* local newInfo / fileInfo of the callback
    oldInfo,       \* local oldInfo of the callback
    exists,        \* local exists of the callback
    currentFiles,  \* local currentFiles of checkChanges
    iter,          \* keys the range loop of the sweep has not produced yet
    fileStates,    \* fw.fileStates
    torn,          \* the entry of fileStates an assignment is in the middle of
    mutex,         \* fw.mutex: [writer, readers]
    out,           \* the lines printed since the current pass started
    printed,       \* the lines printed by the current callback invocation
    snap0,         \* fileStates when the current pass started
    extracted,     \* paths getFileInfo succeeded for in the current pass
    seen,          \* the records getFileInfo returned in the current pass, per path, in order
    quiet,         \* pass starts since the last file system change (capped at 2)
    pass,          \* the pass last started: "initial" or "periodic"
    tickC,         \* ticker.C: the number of ticks waiting in the channel (0 or 1)
    churn          \* per path: "gone" if it was removed, a key of the map, since the
                   \* scan loop began to wait for the tick; "back" if it was then
                   \* created again before the tick

vars == << fs, changes, phase, pc, ri, todo, cur, curErr, names, newInfo,
           oldInfo, exists, currentFiles, iter, fileStates, torn, mutex,
           out, printed, snap0, extracted, seen, quiet, pass, tickC, churn >>

scanVars == << phase, pc, ri, todo, cur, curErr, names, newInfo, oldInfo,
               exists, currentFiles, iter, fileStates, torn, out, printed,
               snap0, extracted, seen, pass, tickC >>

----------------------------------------------------------------------------
(* Bounds and the watched tree *)

\* The number of file system changes in one behaviour.
MaxChanges == 2

None == "-"

\* A root directory, a sub-directory of it and a file in the sub-directory.
Paths == {"d", "d/s", "d/s/f"}

IsDirPath(p) == p \in {"d", "d/s"}

Parent(p) == IF p = "d/s/f" THEN "d/s" ELSE IF p = "d/s" THEN "d" ELSE None

Children(p) == {q \in Paths : Parent(q) = p}

\* os.Args[1:]: two roots that overlap
directories == << "d", "d/s" >>

Vals == {0, 1}

\* An entry of the file system.  kind "link" is a symbolic link whose target
\* does not exist: Lstat succeeds on it and Stat fails.  A directory of mode 1
\* cannot be read (its names cannot be listed); its entries can be stat'ed.
Absent == [kind |-> "none", size |-> 0, modTime |-> 0, mode |-> 0]

Dangling == [kind |-> "link", size |-> 0, modTime |-> 0, mode |-> 0]

FileEntries == {[kind |-> "file", size |-> s, modTime |-> t, mode |-> m] :
                   s \in Vals, t \in Vals, m \in Vals}

DirEntries == {[kind |-> "dir", size |-> 0, modTime |-> 0, mode |-> m] : m \in Vals}

EntriesOf(p) == IF IsDirPath(p) THEN DirEntries \cup {Absent}
                ELSE FileEntries \cup {Absent, Dangling}

\* An entry exists only in a directory that exists.
Consistent(f) ==
    \A p \in Paths : f[p].kind # "none" /\ Parent(p) # None => f[Parent(p)].kind = "dir"

FileSystems == {f \in [Paths -> FileEntries \cup DirEntries \cup {Absent, Dangling}] :
                   /\ \A p \in Paths : f[p] \in EntriesOf(p)
                   /\ Consistent(f)}

----------------------------------------------------------------------------
(* System calls *)

LstatOk(f, p) == f[p].kind # "none"

StatOk(f, p) == f[p].kind \in {"file", "dir"}

ReadDirOk(f, p) == f[p].kind = "dir" /\ f[p].mode = 0

\* readDirNames: the names in the directory, sorted
RECURSIVE SortedSeq(_)
SortedSeq(S) ==
    IF S = {} THEN << >>
    ELSE LET m == CHOOSE x \in S : \A y \in S : Len(x) <= Len(y)
         IN  << m >> \o SortedSeq(S \ {m})

ReadDirNames(f, p) == SortedSeq({q \in Children(p) : LstatOk(f, q)})

NoInfo == [Size |-> 0, ModTime |-> 0, Mode |-> 0, IsDir |-> FALSE]

getFileInfo(f, p) ==
    [Size |-> f[p].size, ModTime |-> f[p].modTime, Mode |-> f[p].mode,
     IsDir |-> f[p].kind = "dir"]

----------------------------------------------------------------------------
(* The file system changes under the watcher *)

\* no path removed since the scan loop began to wait
NoChurn == [p \in Paths |-> None]

Changed(f) ==
    /\ changes < MaxChanges
    /\ changes' = changes + 1
    /\ fs' = f
    /\ quiet' = 0
    /\ UNCHANGED << scanVars, mutex >>

FsCreate(p, e) ==
    /\ fs[p].kind = "none"
    /\ e \in EntriesOf(p) \ {Absent}
    /\ e.kind = "file" => e.mode = 0
    /\ e.kind = "dir" => e.mode = 0
    /\ Parent(p) # None => fs[Parent(p)].kind = "dir"
    /\ Changed([fs EXCEPT ![p] = e])
    /\ churn' = IF pc = "tick" /\ churn[p] = "gone"
                THEN [churn EXCEPT ![p] = "back"] ELSE churn

FsRemove(p) ==
    /\ fs[p].kind # "none"
    /\ \A q \in Children(p) : fs[q].kind = "none"
    /\ Changed([fs EXCEPT ![p] = Absent])
    /\ churn' = IF pc = "tick"
                THEN [churn EXCEPT ![p] = IF p \in DOMAIN fileStates
                                          THEN "gone" ELSE None]
                ELSE churn

\* write, truncate, touch, chmod of a file; chmod of a directory
FsModify(p, e) ==
    /\ fs[p].kind \in {"file", "dir"}
    /\ e \in EntriesOf(p)
    /\ e.kind = fs[p].kind
    /\ e # fs[p]
    /\ Changed([fs EXCEPT ![p] = e])
    /\ UNCHANGED churn

\* the target of the symbolic link p is removed
FsBreak(p) ==
    /\ fs[p].kind = "file"
    /\ Changed([fs EXCEPT ![p] = Dangling])
    /\ UNCHANGED churn

----------------------------------------------------------------------------
(* fw.mutex, a sync.RWMutex *)

Unlocked == [writer |-> FALSE, readers |-> {}]

\* a Lock that does not wait for the readers to leave
CanLock_IgnoringReaders(m) == ~m.writer

\* Lock returns when no goroutine holds the lock
CanLock(m) == ~m.writer /\ m.readers = {}

\* RLock returns when no goroutine holds the write lock
CanRLock(m) == ~m.writer

\* a scan loop that goes on without RUnlock
RUnlocked_NotByScan(m, g) == IF g = "scan" THEN m ELSE [m EXCEPT !.readers = @ \ {g}]

\* RUnlock by goroutine g
RUnlocked(m, g) == [m EXCEPT !.readers = @ \ {g}]

\* the scan loop is inside a call of Lock: new readers wait behind it
LockPending == pc \in {"lock", "sweepLock"}

----------------------------------------------------------------------------
(* The map fw.fileStates and the lines printed *)

EmptyMap == [p \in {} |-> NoInfo]

\* an assignment that is lost
Stored_Dropped(m, p, info) == m

\* an assignment that only inserts: the record of a known path is kept
Stored_IfAbsent(m, p, info) ==
    [q \in DOMAIN m \cup {p} |-> IF q \in DOMAIN m THEN m[q] ELSE info]

\* m[p] = info
Stored(m, p, info) == [q \in DOMAIN m \cup {p} |-> IF q = p THEN info ELSE m[q]]

\* a delete that is lost
Removed_Kept(m, p) == m

\* delete(m, p)
Removed(m, p) == [q \in DOMAIN m \ {p} |-> m[q]]

\* a lookup that takes a path whose record differs for a new one
Lines_CreatedOnChange(found, old, new) ==
    IF found /\ old = new THEN << >> ELSE << "Created" >>

\* the comparisons chained with else: only the first difference is printed
Modifications_FirstOnly(old, new) ==
    IF old.Size # new.Size THEN << "SizeChanged" >>
    ELSE IF old.ModTime # new.ModTime THEN << "TimeChanged" >>
    ELSE IF old.Mode # new.Mode THEN << "AttributesChanged" >>
    ELSE << >>

\* the comparisons of checkChanges: one line per field that differs
Modifications(old, new) ==
    (IF old.Size # new.Size THEN << "SizeChanged" >> ELSE << >>)
    \o (IF old.ModTime # new.ModTime THEN << "TimeChanged" >> ELSE << >>)
    \o (IF old.Mode # new.Mode THEN << "AttributesChanged" >> ELSE << >>)

\* a callback that prints nothing for a path it has no record of
Lines_NoCreated(found, old, new) ==
    IF ~found THEN << >> ELSE Modifications(old, new)

\* what the callback of checkChanges prints for a path it has a record of
Lines(found, old, new) ==
    IF ~found THEN << "Created" >> ELSE Modifications(old, new)

\* the lines ks, each about path p
About(ks, p) == [i \in 1..Len(ks) |-> << ks[i], p >>]

\* a callback that notes the path before it looks at the error of the walk
Observed_Always(cf, p, err) == cf \cup {p}

\* the callback of checkChanges returns on an error of the walk, and
\* otherwise notes the path in currentFiles before anything else
Observed(cf, p, err) == IF err THEN cf ELSE cf \cup {p}

\* a sweep that does not look at currentFiles
Swept_All(p, cf) == TRUE

\* whether the sweep reports key p, given the observed set cf
Swept(p, cf) == p \notin cf

\* both callbacks return nil
OnError_Nil(ph) == "nil"

\* both callbacks return the error
OnError_Err(ph) == "err"

\* what a callback returns when the walk hands it an error or Stat fails:
\* no record extracted yet
NoRecords == [p \in {} |-> << >>]

\* the record info is the latest one extracted for path p
Noted(s, p, info) ==
    [q \in DOMAIN s \cup {p} |->
        IF q = p THEN (IF p \in DOMAIN s THEN Append(s[p], info) ELSE << info >>)
        ELSE s[q]]

\* a loop over the roots that is left after its first iteration
LastRoot_First(i) == TRUE

\* for _, dir := range fw.directories: the root just walked was the last one
LastRoot(i) == i >= Len(directories)

\* a receive from ticker.C wherever the scan loop is
AtReceive_Anywhere(at) == at # "exit"

\* the scan loop receives from ticker.C only at the head of its for-range
\* loop, when initialize or the previous call of checkChanges has returned
AtReceive(at) == at = "tick"

\* initialize returns the error, checkChanges returns nil
OnError(ph) == IF ph = "Initializing" THEN "err" ELSE "nil"

----------------------------------------------------------------------------
(* The scan loop *)

ResetLocals ==
    /\ cur' = None
    /\ curErr' = FALSE
    /\ names' = << >>
    /\ newInfo' = NoInfo
    /\ oldInfo' = NoInfo
    /\ exists' = FALSE
    /\ printed' = << >>

\* The callback returned nil: filepath.Walk goes on with the names in rest;
\* after the last root initialize returns nil and Start waits for the first
\* tick, and checkChanges goes on to its sweep.
Return(rest) ==
    /\ ResetLocals
    /\ IF rest # << >>
       THEN pc' = "lstat" /\ todo' = rest /\ ri' = ri /\ phase' = phase
       ELSE IF ~LastRoot(ri)
       THEN pc' = "lstat" /\ todo' = << directories[ri + 1] >> /\ ri' = ri + 1
            /\ phase' = phase
       ELSE /\ todo' = << >>
            /\ ri' = 0
            /\ phase' = "Running"
            /\ pc' = IF phase = "Initializing" THEN "tick" ELSE "sweepLock"

\* The callback returned an error: Walk, initialize and Start return it.
Fail ==
    /\ ResetLocals
    /\ todo' = << >>
    /\ ri' = 0
    /\ phase' = "Failed"
    /\ pc' = "exit"

\* The callback met an error.
Errored(rest) == IF OnError(phase) = "err" THEN Fail ELSE Return(rest)

\* filepath.Walk: Lstat of the root, or of the next name of a directory
WalkLstat ==
    /\ pc = "lstat"
    /\ cur' = Head(todo)
    /\ todo' = Tail(todo)
    /\ names' = << >>
    /\ curErr' = ~LstatOk(fs, Head(todo))
    /\ pc' = IF fs[Head(todo)].kind = "dir" THEN "readdir" ELSE "fn"
    /\ UNCHANGED << fs, changes, pass, tickC, churn, quiet, phase, ri, newInfo, oldInfo, exists,
                    currentFiles, iter, fileStates, torn, mutex, out, printed,
                    snap0, extracted, seen >>

\* filepath.Walk: readDirNames of a directory, before the callback is called
WalkReadDir ==
    /\ pc = "readdir"
    /\ curErr' = ~ReadDirOk(fs, cur)
    /\ names' = IF ReadDirOk(fs, cur) THEN ReadDirNames(fs, cur) ELSE << >>
    /\ pc' = "fn"
    /\ UNCHANGED << fs, changes, pass, tickC, churn, quiet, phase, ri, todo, cur, newInfo, oldInfo,
                    exists, currentFiles, iter, fileStates, torn, mutex, out,
                    printed, snap0, extracted, seen >>

\* the callback of initialize, to its call of Lock
InitFn ==
    /\ pc = "fn"
    /\ phase = "Initializing"
    /\ IF curErr \/ ~StatOk(fs, cur)
       THEN Errored(names \o todo) /\ UNCHANGED << extracted, seen >>
       ELSE /\ newInfo' = getFileInfo(fs, cur)
            /\ extracted' = extracted \cup {cur}
            /\ seen' = Noted(seen, cur, getFileInfo(fs, cur))
            /\ pc' = "lock"
            /\ UNCHANGED << phase, ri, todo, cur, curErr, names, oldInfo, exists,
                            printed >>
    /\ UNCHANGED << fs, changes, pass, tickC, churn, quiet, currentFiles, iter, fileStates, torn,
                    mutex, out, snap0 >>

\* the callback of checkChanges, to its call of RLock
CheckFn ==
    /\ pc = "fn"
    /\ phase = "Running"
    /\ currentFiles' = Observed(currentFiles, cur, curErr)
    /\ IF curErr
       THEN Errored(todo) /\ UNCHANGED << extracted, seen >>
       ELSE IF ~StatOk(fs, cur)
       THEN Errored(names \o todo) /\ UNCHANGED << extracted, seen >>
       ELSE /\ newInfo' = getFileInfo(fs, cur)
            /\ extracted' = extracted \cup {cur}
            /\ seen' = Noted(seen, cur, getFileInfo(fs, cur))
            /\ pc' = "rlock"
            /\ UNCHANGED << phase, ri, todo, cur, curErr, names, oldInfo,
                            exists, printed >>
    /\ UNCHANGED << fs, changes, pass, tickC, churn, quiet, iter, fileStates, torn, mutex, out, snap0 >>

\* RLock and the lookup of the path
Lookup ==
    /\ pc = "rlock"
    /\ CanRLock(mutex)
    /\ mutex' = [mutex EXCEPT !.readers = @ \cup {"scan"}]
    /\ exists' = (cur \in DOMAIN fileStates)
    /\ oldInfo' = IF cur \in DOMAIN fileStates THEN fileStates[cur] ELSE NoInfo
    /\ pc' = "runlock"
    /\ UNCHANGED << fs, changes, pass, tickC, churn, quiet, phase, ri, todo, cur, curErr, names,
                    newInfo, currentFiles, iter, fileStates, torn, out, printed,
                    snap0, extracted, seen >>

\* RUnlock, the comparison and its lines
Compare ==
    /\ pc = "runlock"
    /\ mutex' = RUnlocked(mutex, "scan")
    /\ printed' = Lines(exists, oldInfo, newInfo)
    /\ out' = out \o About(Lines(exists, oldInfo, newInfo), cur)
    /\ pc' = "lock"
    /\ UNCHANGED << fs, changes, pass, tickC, churn, quiet, phase, ri, todo, cur, curErr, names,
                    newInfo, oldInfo, exists, currentFiles, iter, fileStates,
                    torn, snap0, extracted, seen >>

\* Lock, in either callback
Lock ==
    /\ pc = "lock"
    /\ CanLock(mutex)
    /\ mutex' = [mutex EXCEPT !.writer = TRUE]
    /\ pc' = "store"
    /\ UNCHANGED << fs, changes, pass, tickC, churn, quiet, phase, ri, todo, cur, curErr, names,
                    newInfo, oldInfo, exists, currentFiles, iter, fileStates,
                    torn, out, printed, snap0, extracted, seen >>

\* the assignment to the map entry starts: the entry is partly written
Store ==
    /\ pc = "store"
    /\ torn' = cur
    /\ pc' = "unlock"
    /\ UNCHANGED << fs, changes, pass, tickC, churn, quiet, phase, ri, todo, cur, curErr, names,
                    newInfo, oldInfo, exists, currentFiles, iter, fileStates,
                    mutex, out, printed, snap0, extracted, seen >>

\* the assignment is complete; Unlock; the callback returns nil
Unlock ==
    /\ pc = "unlock"
    /\ fileStates' = Stored(fileStates, cur, newInfo)
    /\ torn' = None
    /\ mutex' = [mutex EXCEPT !.writer = FALSE]
    /\ Return(names \o todo)
    /\ UNCHANGED << fs, changes, pass, tickC, churn, quiet, currentFiles, iter, out, snap0, extracted, seen >>

\* the runtime timer of the ticker sends a tick; ticker.C holds one tick, and
\* a tick that finds the channel full is dropped
TickerFire ==
    /\ phase = "Running"
    /\ tickC = 0
    /\ tickC' = 1
    /\ UNCHANGED << fs, changes, quiet, churn, mutex, phase, pc, ri, todo, cur, curErr,
                    names, newInfo, oldInfo, exists, currentFiles, iter,
                    fileStates, torn, out, printed, snap0, extracted, seen, pass >>

\* the for-range loop receives a tick from ticker.C: checkChanges starts
Tick ==
    /\ AtReceive(pc)
    /\ phase = "Running"
    /\ tickC = 1
    /\ tickC' = 0
    /\ churn' = [p \in Paths |-> IF churn[p] = "back" THEN "back" ELSE None]
    /\ currentFiles' = {}
    /\ extracted' = {}
    /\ seen' = NoRecords
    /\ out' = << >>
    /\ snap0' = fileStates
    /\ quiet' = IF quiet < 2 THEN quiet + 1 ELSE 2
    /\ ri' = 1
    /\ todo' = << directories[1] >>
    /\ pc' = "lstat"
    /\ pass' = "periodic"
    /\ UNCHANGED << fs, changes, phase, cur, curErr, names, newInfo, oldInfo,
                    exists, iter, fileStates, torn, mutex, printed >>

\* Lock before the range loop over the map
SweepLock ==
    /\ pc = "sweepLock"
    /\ CanLock(mutex)
    /\ mutex' = [mutex EXCEPT !.writer = TRUE]
    /\ iter' = DOMAIN fileStates
    /\ pc' = "sweep"
    /\ UNCHANGED << fs, changes, pass, tickC, churn, quiet, phase, ri, todo, cur, curErr, names,
                    newInfo, oldInfo, exists, currentFiles, fileStates, torn,
                    out, printed, snap0, extracted, seen >>

\* one iteration of the range loop, in the order the map gives
SweepKey(p) ==
    /\ pc = "sweep"
    /\ p \in iter
    /\ iter' = iter \ {p}
    /\ IF Swept(p, currentFiles)
       THEN /\ out' = Append(out, << "Deleted", p >>)
            /\ fileStates' = Removed(fileStates, p)
       ELSE UNCHANGED << out, fileStates >>
    /\ UNCHANGED << fs, changes, pass, tickC, churn, quiet, phase, pc, ri, todo, cur, curErr, names,
                    newInfo, oldInfo, exists, currentFiles, torn, mutex,
                    printed, snap0, extracted, seen >>

\* the range loop is over; Unlock; checkChanges returns
SweepUnlock ==
    /\ pc = "sweep"
    /\ iter = {}
    /\ mutex' = [mutex EXCEPT !.writer = FALSE]
    /\ pc' = "tick"
    /\ churn' = NoChurn
    /\ UNCHANGED << fs, changes, pass, tickC, quiet, phase, ri, todo, cur, curErr, names,
                    newInfo, oldInfo, exists, currentFiles, iter, fileStates,
                    torn, out, printed, snap0, extracted, seen >>

----------------------------------------------------------------------------
(* A concurrent reader of fileStates *)

ReaderRLock ==
    /\ "reader" \notin mutex.readers
    /\ CanRLock(mutex)
    /\ ~LockPending
    /\ mutex' = [mutex EXCEPT !.readers = @ \cup {"reader"}]
    /\ UNCHANGED << fs, changes, quiet, churn, scanVars >>

ReaderRUnlock ==
    /\ "reader" \in mutex.readers
    /\ mutex' = RUnlocked(mutex, "reader")
    /\ UNCHANGED << fs, changes, quiet, churn, scanVars >>

----------------------------------------------------------------------------
(* The specification *)

Init ==
    /\ fs \in FileSystems
    /\ changes = 0
    /\ phase = "Initializing"
    /\ pc = "lstat"
    /\ ri = 1
    /\ todo = << directories[1] >>
    /\ cur = None
    /\ curErr = FALSE
    /\ names = << >>
    /\ newInfo = NoInfo
    /\ oldInfo = NoInfo
    /\ exists = FALSE
    /\ currentFiles = {}
    /\ iter = {}
    /\ fileStates = EmptyMap
    /\ torn = None
    /\ mutex = Unlocked
    /\ out = << >>
    /\ printed = << >>
    /\ snap0 = EmptyMap
    /\ extracted = {}
    /\ seen = NoRecords
    /\ quiet = 1
    /\ pass = "initial"
    /\ tickC = 0
    /\ churn = NoChurn

FsStep ==
    \E p \in Paths :
        \/ \E e \in EntriesOf(p) : FsCreate(p, e)
        \/ FsRemove(p)
        \/ \E e \in EntriesOf(p) : FsModify(p, e)
        \/ FsBreak(p)

ScanStep ==
    \/ WalkLstat
    \/ WalkReadDir
    \/ InitFn
    \/ CheckFn
    \/ Lookup
    \/ Compare
    \/ Lock
    \/ Store
    \/ Unlock
    \/ Tick
    \/ SweepLock
    \/ \E p \in Paths : SweepKey(p)
    \/ SweepUnlock

ReaderStep == ReaderRLock \/ ReaderRUnlock

Next == FsStep \/ ScanStep \/ ReaderStep \/ TickerFire

Spec == Init /\ [][Next]_vars

\* The ticker keeps firing and the scan loop keeps running; a reader that
\* holds the read lock releases it.
FairSpec ==
    Spec /\ WF_vars(ScanStep) /\ WF_vars(ReaderRUnlock) /\ WF_vars(TickerFire)

TypeOK ==
    /\ fs \in FileSystems
    /\ changes \in 0..MaxChanges
    /\ phase \in {"Initializing", "Running", "Failed"}
    /\ pc \in {"lstat", "readdir", "fn", "rlock", "runlock", "lock", "store",
               "unlock", "tick", "sweepLock", "sweep", "exit"}
    /\ cur \in Paths \cup {None}
    /\ currentFiles \subseteq Paths
    /\ DOMAIN fileStates \subseteq Paths
    /\ torn \in Paths \cup {None}
    /\ pass \in {"initial", "periodic"}
    /\ tickC \in {0, 1}
    /\ churn \in [Paths -> {None, "gone", "back"}]

----------------------------------------------------------------------------
(* Properties *)

Kinds == {"Created", "SizeChanged", "TimeChanged", "AttributesChanged", "Deleted"}

\* how many lines of kind k about path p the current pass has printed
Count(k, p) == Cardinality({i \in DOMAIN out : out[i] = << k, p >>})

\* how many times kind k is among the lines ks
Times(ks, k) == Cardinality({i \in DOMAIN ks : ks[i] = k})

\* between ticks, after a completed periodic pass
PeriodicDone == pc = "tick" /\ pass = "periodic"

\* the paths of the watched trees: every path lies under the first root
Tree(f) == {p \in Paths : LstatOk(f, p)}

\* C1: in a periodic pass, every path that is not a key of the Snapshot when
\* the pass starts and for which the walk of the pass extracts a record gets
\* exactly one Created line in the pass, also when two roots reach it, and
\* is a key of the Snapshot when the pass ends.
C1_CreatedOnce ==
    /\ pass = "periodic" =>
          \A p \in Paths \ DOMAIN snap0 : Count("Created", p) <= 1
    /\ PeriodicDone =>
          \A p \in extracted \ DOMAIN snap0 :
              Count("Created", p) = 1 /\ p \in DOMAIN fileStates

\* a pass is over in which the file, new since the pass before, was reached
\* through both roots (the file system did not change during the pass)
C1_Witness ==
    /\ PeriodicDone
    /\ quiet = 1
    /\ ReadDirOk(fs, "d") /\ ReadDirOk(fs, "d/s")
    /\ "d/s/f" \in extracted \ DOMAIN snap0
    /\ Count("Created", "d/s/f") = 1

\* C2: in a periodic pass, every key of the Snapshot at the start of the pass
\* that is not in currentFiles when the walk is over gets exactly one Deleted
\* line and is no key of the Snapshot when the pass ends.
C2_DeletedOnce ==
    /\ pass = "periodic" => \A p \in Paths : Count("Deleted", p) <= 1
    /\ PeriodicDone =>
          \A p \in DOMAIN snap0 \ currentFiles :
              Count("Deleted", p) = 1 /\ p \notin DOMAIN fileStates

C2_Witness ==
    /\ PeriodicDone
    /\ "d/s/f" \in DOMAIN snap0 \ currentFiles
    /\ "d/s" \in DOMAIN snap0 \cap currentFiles

\* C3: when the file system has been the same during two consecutive
\* completed passes, the second one prints nothing and leaves the Snapshot
\* as it found it, whatever happened before the first of the two.
C3_Idempotent ==
    PeriodicDone /\ quiet = 2 => out = << >> /\ fileStates = snap0

C3_Witness ==
    /\ PeriodicDone
    /\ quiet = 2
    /\ changes > 0
    /\ DOMAIN fileStates = Paths

\* C4: at a visit of a path the Snapshot has a record of, the lines printed
\* are exactly the fields in which the old record (the Snapshot's) and the
\* new one differ, each once, and neither Created nor Deleted.
C4_ExactlyTheDifferences ==
    phase = "Running" /\ pc \in {"lock", "store", "unlock"} /\ exists =>
        /\ pc # "unlock" => cur \in DOMAIN fileStates /\ oldInfo = fileStates[cur]
        /\ Times(printed, "SizeChanged") = IF oldInfo.Size # newInfo.Size THEN 1 ELSE 0
        /\ Times(printed, "TimeChanged") = IF oldInfo.ModTime # newInfo.ModTime THEN 1 ELSE 0
        /\ Times(printed, "AttributesChanged") = IF oldInfo.Mode # newInfo.Mode THEN 1 ELSE 0
        /\ Times(printed, "Created") = 0
        /\ Times(printed, "Deleted") = 0
        /\ Len(out) >= Len(printed)
        /\ \A i \in DOMAIN printed :
              out[Len(out) - Len(printed) + i] = << printed[i], cur >>

\* a visit that found only the size changed and printed only that
C4_Witness ==
    /\ phase = "Running" /\ pc = "lock" /\ exists
    /\ oldInfo.Size # newInfo.Size
    /\ oldInfo.ModTime = newInfo.ModTime
    /\ oldInfo.Mode = newInfo.Mode
    /\ printed = << "SizeChanged" >>

\* C5: as long as the file system is as it was when initialize started,
\* nothing is ever printed, and once initialize has returned nil the keys of
\* the Snapshot are exactly the paths of the trees, each with its record,
\* after initialize and after every later pass.
C5_RoundTrip ==
    changes = 0 =>
        /\ out = << >>
        /\ pc = "tick" =>
              /\ DOMAIN fileStates = Tree(fs)
              /\ Cardinality(DOMAIN fileStates) = Cardinality(Tree(fs))
              /\ \A p \in Tree(fs) : fileStates[p] = getFileInfo(fs, p)

C5_Witness ==
    /\ changes = 0
    /\ PeriodicDone
    /\ Cardinality(DOMAIN fileStates) = 3

\* a pass ends: initialize returns nil, or checkChanges returns
PassEnds == pc # "tick" /\ pc' = "tick"

\* the callback is about to run for a path the walk could not read or that
\* Stat fails for, and the scan loop takes that step
FailingVisit == pc = "fn" /\ (curErr \/ ~StatOk(fs, cur)) /\ pc' # pc

\* C6: when a pass has ended, no key is in the Snapshot whose path cannot be
\* stat'ed at the end of the pass, for every interleaving of file system
\* changes with the walk, also for a path that is listed and vanishes before
\* it is stat'ed.  Stated for the paths the claim names: those of which the
\* pass itself extracted no record (a path the pass did stat may vanish
\* after its visit, which no walk can see).
C6_NoAbsentKeyAtQuiescence ==
    [][PassEnds =>
          \A p \in DOMAIN fileStates' : p \in extracted' \/ StatOk(fs', p)]_vars

\* C7: a key of the Snapshot that stops being stat-able and stays so is,
\* while ticks keep firing, eventually removed from the Snapshot (with its
\* Deleted line), and Start returns no error.
C7_EventuallyDeleted ==
    /\ \A p \in Paths :
          []((phase = "Running" /\ p \in DOMAIN fileStates /\ []~StatOk(fs, p))
                => <>(p \notin DOMAIN fileStates))
    /\ [][phase = "Running" => phase' = "Running"]_vars

\* C8: a root that cannot be read or a path that cannot be stat'ed during
\* the initial pass makes initialize and Start return the error: Failed is
\* terminal, no periodic pass ever starts and nothing is ever printed.
C8_InitFailureIsFinal ==
    /\ [](phase \in {"Initializing", "Failed"} => out = << >> /\ pass = "initial")
    /\ [](phase = "Failed" => pc = "exit")
    /\ [][phase = "Initializing" /\ FailingVisit => phase' = "Failed"]_vars
    /\ [][phase = "Failed" => phase' = "Failed" /\ pc' = "exit"]_vars

\* Start has returned the error after the Snapshot was seeded in part
C8_Witness == phase = "Failed" /\ "d" \in DOMAIN fileStates

\* C9: once initialize has returned nil the watcher stays Running: a failure
\* of the walk or of Stat in a periodic pass prints nothing and the walk goes
\* on, every pass reaches its sweep and completes, and the next tick starts
\* another pass.
C9_StaysRunning ==
    /\ [][phase = "Running" => phase' = "Running"]_vars
    /\ [][phase = "Running" /\ FailingVisit =>
             /\ out' = out
             /\ fileStates' = fileStates
             /\ pc' \in {"lstat", "sweepLock"}]_vars
    /\ (phase = "Running") ~> (pc = "sweep")
    /\ (pc = "sweep") ~> (pc = "tick")
    /\ (phase = "Running" /\ pc = "tick") ~> (pc = "lstat")

\* a periodic pass has reached its sweep although the first root could not
\* be read and Stat failed for the file
C9_Witness ==
    /\ phase = "Running" /\ pc = "sweep"
    /\ "d" \notin currentFiles
    /\ "d/s/f" \in currentFiles \ extracted

\* C10: the scan loop looks a path up holding the read lock and assigns to
\* and deletes from the map holding the write lock, the write lock excludes
\* every reader, and so a reader holding the read lock never finds an entry
\* partly written.
C10_WholeRecords ==
    /\ pc = "runlock" => "scan" \in mutex.readers
    /\ pc \in {"store", "unlock", "sweep"} => mutex.writer
    /\ torn # None => mutex.writer /\ pc = "unlock"
    /\ mutex.writer => mutex.readers = {}
    /\ "reader" \in mutex.readers => torn = None

\* a reader holds the read lock while the scan loop waits in Lock to
\* overwrite a record with a different one
C10_Witness ==
    /\ "reader" \in mutex.readers
    /\ pc = "lock"
    /\ cur \in DOMAIN fileStates
    /\ fileStates[cur] # newInfo

\* C11: in a periodic pass, a visit whose Stat fails does not add the path
\* to currentFiles, and so every key of the Snapshot at the start of the
\* pass that the pass extracted no record of is no key when the pass ends.
C11_FailedStatNotObserved ==
    /\ [][(phase = "Running" /\ pc = "fn" /\ ~curErr /\ ~StatOk(fs, cur)
             /\ pc' # pc) => currentFiles' = currentFiles]_vars
    /\ [](PeriodicDone =>
             \A p \in DOMAIN snap0 \ extracted : p \notin DOMAIN fileStates)

\* C12: when a periodic pass is over, every path the pass extracted a record
\* of is a key of the Snapshot and its entry is the record extracted at the
\* last visit of the path in that pass, whether or not a line was printed.
C12_LastRecordStored ==
    PeriodicDone =>
        \A p \in DOMAIN seen :
            /\ p \in DOMAIN fileStates
            /\ fileStates[p] = seen[p][Len(seen[p])]

\* a pass is over that visited the file twice and extracted two different
\* records of it, and another path whose record was the one of the Snapshot
C12_Witness ==
    /\ PeriodicDone
    /\ "d/s/f" \in DOMAIN seen /\ Len(seen["d/s/f"]) = 2
    /\ seen["d/s/f"][1] # seen["d/s/f"][2]
    /\ "d/s" \in DOMAIN seen \cap DOMAIN snap0
    /\ seen["d/s"][1] = snap0["d/s"] /\ Count("TimeChanged", "d/s") = 0

\* the scan loop is in a pass: a call of initialize or checkChanges that has
\* not returned
InPass == pc \notin {"tick", "exit"}

\* C13: passes do not overlap: the scan loop takes a tick from ticker.C, and
\* so starts a pass, only when no pass is in progress, also when ticks fire
\* during a pass; then the sweep of the pass before is over, the scan loop
\* holds no lock, no entry is partly written, and the pass starts from the
\* Snapshot exactly as the pass before left it.
C13_PassesInSequence ==
    [][(tickC = 1 /\ tickC' = 0) =>
          /\ ~InPass
          /\ InPass'
          /\ iter = {}
          /\ torn = None
          /\ ~mutex.writer /\ "scan" \notin mutex.readers
          /\ fileStates' = fileStates
          /\ snap0' = fileStates]_vars

\* the ticker has fired while a periodic pass is still in its sweep
C13_Witness ==
    /\ pass = "periodic"
    /\ pc = "sweep"
    /\ iter # {}
    /\ tickC = 1

\* walking the root r of a file system that stays f hands path p to the
\* callback with a nil error
RECURSIVE Listed(_, _, _)
Listed(f, r, p) ==
    \/ p = r
    \/ Parent(p) # None /\ ReadDirOk(f, Parent(p)) /\ Listed(f, r, Parent(p))

Reached(f, r, p) ==
    /\ Listed(f, r, p)
    /\ LstatOk(f, p)
    /\ f[p].kind = "dir" => ReadDirOk(f, p)

\* the loop of checkChanges over the roots is not over
Walking == pass = "periodic" /\ ri \in 1..Len(directories)

\* C14: in a periodic pass the sweep starts only when every root has been
\* walked: while a root is unwalked no Deleted line has been printed and no
\* key has been removed, and a key of the Snapshot that the walk of the last
\* root reaches, in a file system that stays the same during the pass, gets no
\* Deleted line and is a key when the pass ends.
C14_SweepAfterAllRoots ==
    /\ Walking =>
          /\ pc \notin {"sweepLock", "sweep"}
          /\ \A p \in Paths : Count("Deleted", p) = 0
          /\ DOMAIN snap0 \subseteq DOMAIN fileStates
    /\ (PeriodicDone /\ quiet >= 1) =>
          \A p \in DOMAIN snap0 :
              Reached(fs, directories[Len(directories)], p) =>
                  Count("Deleted", p) = 0 /\ p \in DOMAIN fileStates

\* a pass is over in which the first root could not be read, so that the
\* sub-directory and the file were reached through the last root only, and
\* the sweep deleted the first root and kept them
C14_Witness ==
    /\ PeriodicDone /\ quiet >= 1
    /\ ~ReadDirOk(fs, "d")
    /\ {"d", "d/s", "d/s/f"} \subseteq DOMAIN snap0
    /\ Reached(fs, "d/s", "d/s/f")
    /\ Count("Deleted", "d") = 1
    /\ {"d/s", "d/s/f"} \subseteq DOMAIN fileStates

\* the entries the range loop of the sweep has handled since its Lock: the
\* keys the map had when the walk was over that are no longer to come
Handled == (DOMAIN snap0 \cup DOMAIN seen) \ iter

\* C15: the scan loop holds the read lock for the lookup of one entry only
\* and the write lock for the write of one entry only: under one acquisition
\* it never handles a second entry, in the walk or in the sweep.
C15_OneEntryPerAcquisition ==
    /\ "scan" \in mutex.readers => pc = "runlock"
    /\ (mutex.writer /\ pc # "sweep") => pc \in {"store", "unlock"}
    /\ (mutex.writer /\ pc = "sweep") => Cardinality(Handled) <= 1

\* the paths the current pass has extracted a record of more than once
Revisited == {p \in DOMAIN seen : Len(seen[p]) >= 2}

\* the number of lines of kind k the first visit of p owes, the record at the
\* start of the pass and the record of the first visit being what they are
Owed(k, p) ==
    LET new == seen[p][1]
    IN  IF p \notin DOMAIN snap0 THEN (IF k = "Created" THEN 1 ELSE 0)
        ELSE IF k = "SizeChanged" /\ snap0[p].Size # new.Size THEN 1
        ELSE IF k = "TimeChanged" /\ snap0[p].ModTime # new.ModTime THEN 1
        ELSE IF k = "AttributesChanged" /\ snap0[p].Mode # new.Mode THEN 1
        ELSE 0

\* C16: in a periodic pass over overlapping roots, the second visit of a path
\* compares against the record the first visit extracted and stored; a path
\* whose two records are the same gets no line at its second visit, so that
\* the pass prints for it exactly the lines its first visit owes; and the
\* pass ends with the record of the last visit in the Snapshot.
C16_DuplicatesTolerated ==
    /\ (phase = "Running" /\ pc \in {"runlock", "lock", "store", "unlock"}
           /\ cur \in Revisited) =>
          exists /\ oldInfo = seen[cur][1]
    /\ (phase = "Running" /\ pc \in {"lock", "store", "unlock"}
           /\ cur \in Revisited /\ seen[cur][1] = seen[cur][2]) =>
          printed = << >>
    /\ PeriodicDone =>
          \A p \in Revisited :
              /\ seen[p][1] = seen[p][2] =>
                    \A k \in Kinds : Count(k, p) = Owed(k, p)
              /\ fileStates[p] = seen[p][2]

\* a pass is over that visited the file twice, found its size changed since
\* the pass before and the same at both visits, and printed that once
C16_Witness ==
    /\ PeriodicDone
    /\ "d/s/f" \in Revisited \cap DOMAIN snap0
    /\ seen["d/s/f"][1] = seen["d/s/f"][2]
    /\ snap0["d/s/f"].Size # seen["d/s/f"][1].Size
    /\ Count("SizeChanged", "d/s/f") = 1

\* the kinds of line the walk prints
WalkKinds == Kinds \ {"Deleted"}

\* C17: within a periodic pass no path gets both a Deleted line and a line of
\* another kind: a path the walk printed a line about is in currentFiles, the
\* sweep skips it, and it is a key of the Snapshot when the pass ends.
C17_NoDeletedWithAnotherLine ==
    pass = "periodic" =>
        \A p \in Paths :
            (\E k \in WalkKinds : Count(k, p) > 0) =>
                /\ p \in currentFiles
                /\ Count("Deleted", p) = 0
                /\ pc \in {"sweepLock", "sweep", "tick"} => p \in DOMAIN fileStates

\* the sweep has gone over a path the walk printed a line about, and has
\* deleted another path
C17_Witness ==
    /\ pass = "periodic" /\ pc = "sweep"
    /\ "d/s" \notin iter
    /\ Count("AttributesChanged", "d/s") = 1
    /\ Count("Deleted", "d/s/f") = 1

\* path p lies below the directory q
Below(q, p) == Parent(p) = q \/ (Parent(p) # None /\ Parent(Parent(p)) = q)

\* the walk of some root hands p to the callback with a nil error, in a file
\* system that stays f
ReachedSomehow(f, p) ==
    \E i \in DOMAIN directories : Reached(f, directories[i], p)

\* C18: when a periodic pass runs over a file system that stays the same and
\* in which a root or a sub-directory cannot be read, every key of the
\* Snapshot below that directory that no root reaches gets one Deleted line
\* and is removed in that pass; and a path that is no key of the Snapshot and
\* that a root reaches again, its entry still being there, gets one Created
\* line in the pass and is a key again.
C18_UnreadableDirectory ==
    (PeriodicDone /\ quiet >= 1) =>
        /\ \A q \in Paths : \A p \in DOMAIN snap0 :
               (IsDirPath(q) /\ ~ReadDirOk(fs, q) /\ Below(q, p)
                    /\ ~ReachedSomehow(fs, p)) =>
                   Count("Deleted", p) = 1 /\ p \notin DOMAIN fileStates
        /\ \A p \in Paths \ DOMAIN snap0 :
               (ReachedSomehow(fs, p) /\ StatOk(fs, p)) =>
                   Count("Created", p) = 1 /\ p \in DOMAIN fileStates

\* a pass is over in which the sub-directory could not be read and the file
\* below it, a key of the Snapshot and still there, was deleted
C18_Witness ==
    /\ PeriodicDone /\ quiet >= 1
    /\ fs["d/s"].kind = "dir" /\ ~ReadDirOk(fs, "d/s")
    /\ "d/s/f" \in DOMAIN snap0 /\ StatOk(fs, "d/s/f")
    /\ Count("Deleted", "d/s/f") = 1
    /\ "d/s/f" \notin DOMAIN fileStates

\* the first pass since the sub-directory can be read again is over: the
\* sub-directory and the file of mode 1 below it, deleted from the Snapshot
\* while it could not be read, are created
C18_Recovered ==
    /\ PeriodicDone /\ quiet >= 1
    /\ fs["d/s/f"].kind = "file" /\ fs["d/s/f"].mode = 1
    /\ {"d/s", "d/s/f"} \cap DOMAIN snap0 = {}
    /\ Count("Created", "d/s") = 1 /\ Count("Created", "d/s/f") = 1

\* the sweep of a periodic pass has gone over every key
SweepDone == pass = "periodic" /\ pc = "sweep" /\ iter = {}

\* the number of lines of kind k that the difference between the records
\* old and new calls for
Differs(k, old, new) ==
    IF k = "SizeChanged" /\ old.Size # new.Size THEN 1
    ELSE IF k = "TimeChanged" /\ old.ModTime # new.ModTime THEN 1
    ELSE IF k = "AttributesChanged" /\ old.Mode # new.Mode THEN 1
    ELSE 0

\* C19: a key of the Snapshot that is removed and created again at the same
\* path while the scan loop waits for the tick, and that the next pass
\* reaches and stats in a file system that stays the same, gets no Deleted
\* and no Created line in that pass: the pass prints about it one line per
\* field in which the new record differs from the one of the Snapshot,
\* possibly none, and stores the new record.
C19_RecreatedBetweenPasses ==
    (SweepDone /\ quiet >= 1) =>
        \A p \in Paths :
            (churn[p] = "back" /\ ReachedSomehow(fs, p) /\ StatOk(fs, p)) =>
                /\ p \in DOMAIN snap0
                /\ Count("Deleted", p) = 0
                /\ Count("Created", p) = 0
                /\ \A k \in WalkKinds \ {"Created"} :
                       Count(k, p) = Differs(k, snap0[p], getFileInfo(fs, p))
                /\ p \in DOMAIN fileStates
                /\ fileStates[p] = getFileInfo(fs, p)

\* the file was removed and created again with another size between two
\* passes, and the sweep of the second pass is over
C19_Witness ==
    /\ SweepDone /\ quiet >= 1
    /\ churn["d/s/f"] = "back"
    /\ StatOk(fs, "d/s/f")
    /\ Count("SizeChanged", "d/s/f") = 1
    /\ Count("TimeChanged", "d/s/f") = 0

\* C20: the scan loop cannot deadlock on the lock: it holds no read lock when
\* it calls Lock, it holds no lock while it walks, stats, waits for the tick
\* or has returned with an error, and, the reader releasing its read lock,
\* every pass that starts comes to its end.
C20_NoDeadlock ==
    /\ [](pc \in {"lock", "sweepLock"} =>
             ~mutex.writer /\ "scan" \notin mutex.readers)
    /\ [](pc \in {"lstat", "readdir", "fn", "rlock", "tick", "exit"} =>
             ~mutex.writer /\ "scan" \notin mutex.readers)
    /\ InPass ~> ~InPass

\* the scan loop is in Lock before its sweep while a reader holds the read
\* lock
C20_Witness ==
    /\ pc = "sweepLock"
    /\ "reader" \in mutex.readers
    /\ ~mutex.writer

=============================================================================
